---------------------------- MODULE Spec2Model ----------------------------
(***************************************************************************)
(* Model of the territory game of src/main.cpp: the session globals, the   *)
(* two per-frame handlers of the main loop (handleInput, then updateGame)  *)
(* and every function they call that changes state.                        *)
(*                                                                         *)
(* Scale.  An exhaustive search of a 7x7, 10x10 or 12x12 board is out of   *)
(* reach, so the three selectable board sides are scaled to 2, 3 and 4     *)
(* (keeping small < default < large, the default being the side the grid   *)
(* storage is allocated with) and the impulse cost to 1, so that complete  *)
(* sessions, with impulses of full size (2 cells attacked, 3 captured) on  *)
(* both sides, fit on the default board.  Time is counted in ticks of a   *)
(* quarter of the AI delay, so that the delay spans the frames a whole     *)
(* impulse selection takes.  WIN_PERCENTAGE is the source's.               *)
(***************************************************************************)
EXTENDS Integers, Sequences, FiniteSets

DEFAULT_GRID_SIZE == 3      \* main.cpp:10 (10 in the source, scaled)
SMALL_GRID_SIZE == 2        \* main.cpp:338 (7 in the source, scaled)
LARGE_GRID_SIZE == 4        \* main.cpp:340 (12 in the source, scaled)
IMPULSE_COST == 1           \* main.cpp:11 (3 in the source, scaled)
AI_DELAY == 4               \* main.cpp:12 (1.0f, in ticks of 0.25)
WIN_PERCENTAGE == 45        \* main.cpp:13

\* Board changes followed in a session that runs on memory past the grid.
MaxWildPlies == 3

\* Frame times GetFrameTime() can return, in ticks: a short and a long frame.
DeltaTimes == {1, AI_DELAY}

VARIABLES currentState, gameResult, gridSize, selectedGridSize, playerTurn,
          impulseModeActive, currentImpulseMode, grid, wild, playerCells,
          aiCells, playerCharges, aiCharges, aiTimer, selectedCells,
          crashed, plies, phase

vars == <<currentState, gameResult, gridSize, selectedGridSize, playerTurn,
          impulseModeActive, currentImpulseMode, grid, wild, playerCells,
          aiCells, playerCharges, aiCharges, aiTimer, selectedCells,
          crashed, plies, phase>>

-----------------------------------------------------------------------------
(* Grid storage *)

Square(n) == (0..(n-1)) \X (0..(n-1))

\* grid.resize(gridSize, ...) runs once, in initializeGame, with the default
\* side: these are the cells std::vector really holds.
StorageCells == Square(DEFAULT_GRID_SIZE)

\* Addresses grid[x][y] reaches past the end of the vectors when the side is
\* larger than the allocation.
WildCells == Square(LARGE_GRID_SIZE) \ StorageCells

\* The program's globals as one value, so that the sequential code of a
\* handler can be followed statement by statement.
St == [currentState |-> currentState, gameResult |-> gameResult,
       gridSize |-> gridSize, selectedGridSize |-> selectedGridSize,
       playerTurn |-> playerTurn, impulseModeActive |-> impulseModeActive,
       currentImpulseMode |-> currentImpulseMode, grid |-> grid,
       wild |-> wild, playerCells |-> playerCells, aiCells |-> aiCells,
       playerCharges |-> playerCharges, aiCharges |-> aiCharges,
       aiTimer |-> aiTimer, selectedCells |-> selectedCells,
       crashed |-> crashed]

Install(s) ==
    /\ currentState' = s.currentState
    /\ gameResult' = s.gameResult
    /\ gridSize' = s.gridSize
    /\ selectedGridSize' = s.selectedGridSize
    /\ playerTurn' = s.playerTurn
    /\ impulseModeActive' = s.impulseModeActive
    /\ currentImpulseMode' = s.currentImpulseMode
    /\ grid' = s.grid
    /\ wild' = s.wild
    /\ playerCells' = s.playerCells
    /\ aiCells' = s.aiCells
    /\ playerCharges' = s.playerCharges
    /\ aiCharges' = s.aiCharges
    /\ aiTimer' = s.aiTimer
    /\ selectedCells' = s.selectedCells
    /\ crashed' = s.crashed

\* grid[x][y] as an rvalue
CellAt(s, c) == IF c \in StorageCells THEN s.grid[c] ELSE s.wild[c]

\* grid[x][y] = v for every cell of C
SetCells(s, C, v) ==
    [s EXCEPT !.grid = [c \in StorageCells |-> IF c \in C THEN v ELSE @[c]],
              !.wild = [c \in WildCells |-> IF c \in C THEN v ELSE @[c]]]

InBounds(s, x, y) == x >= 0 /\ x < s.gridSize /\ y >= 0 /\ y < s.gridSize

\* getAdjacentCells with the diagonal cells added to dx/dy
getAdjacentCells_Diagonal(s, x, y) ==
    { d \in ((x - 1)..(x + 1)) \X ((y - 1)..(y + 1)) :
        d # <<x, y>> /\ InBounds(s, d[1], d[2]) }

getAdjacentCells(s, x, y) ==
    { d \in { <<x - 1, y>>, <<x + 1, y>>, <<x, y - 1>>, <<x, y + 1>> } :
        InBounds(s, d[1], d[2]) }

isValidMove(s, x, y, player) ==
    IF ~InBounds(s, x, y) \/ CellAt(s, <<x, y>>) # "NEUTRAL"
    THEN FALSE
    ELSE \E adj \in getAdjacentCells(s, x, y) : CellAt(s, adj) = player

getAvailableMoves(s, player) ==
    { c \in Square(s.gridSize) :
        /\ CellAt(s, c) = "NEUTRAL"
        /\ \E adj \in getAdjacentCells(s, c[1], c[2]) : CellAt(s, adj) = player }

\* the target without the + 99 that rounds up
targetCells_Floor(n) == (n * n * WIN_PERCENTAGE) \div 100

targetCells(n) == (n * n * WIN_PERCENTAGE + 99) \div 100

-----------------------------------------------------------------------------
(* Session start *)

GridSizeFor(sel) ==
    CASE sel = 0 -> SMALL_GRID_SIZE
      [] sel = 1 -> DEFAULT_GRID_SIZE
      [] sel = 2 -> LARGE_GRID_SIZE

\* Contents of the memory past the vectors before the program wrote there.
WildInit == [c \in WildCells |-> "FOREIGN"]

\* resetGame without its gameResult = GameResult::NONE
resetFields_KeepResult(s) ==
    LET n == s.gridSize
        cleared == SetCells(s, Square(n), "NEUTRAL")
        p == SetCells(cleared, {<<0, 0>>}, "PLAYER")
        a == SetCells(p, {<<n - 1, n - 1>>}, "AI")
    IN  [a EXCEPT !.playerCells = 1, !.aiCells = 1, !.playerCharges = 0,
                  !.aiCharges = 0, !.playerTurn = TRUE,
                  !.impulseModeActive = FALSE, !.currentImpulseMode = "NONE",
                  !.selectedCells = <<>>, !.currentState = "PLAYING"]

\* The body of resetGame once every grid[x][y] it names is addressable.
resetFields(s) ==
    LET n == s.gridSize
        cleared == SetCells(s, Square(n), "NEUTRAL")
        p == SetCells(cleared, {<<0, 0>>}, "PLAYER")
        a == SetCells(p, {<<n - 1, n - 1>>}, "AI")
    IN  [a EXCEPT !.playerCells = 1, !.aiCells = 1, !.playerCharges = 0,
                  !.aiCharges = 0, !.playerTurn = TRUE,
                  !.impulseModeActive = FALSE, !.currentImpulseMode = "NONE",
                  !.selectedCells = <<>>, !.gameResult = "NONE",
                  !.currentState = "PLAYING"]

\* resetGame never resizes the grid.  With gridSize above the allocated side
\* its loop indexes the vectors past their end, which is undefined: the
\* process either faults there, or the writes land in memory that is not the
\* grid's and the session runs on it.  The set of states it can leave.
resetGame(s) ==
    IF s.gridSize <= DEFAULT_GRID_SIZE
    THEN { resetFields([s EXCEPT !.wild = WildInit]) }
    ELSE { [s EXCEPT !.crashed = TRUE], resetFields(s) }

MenuButtons == {"none", "size0", "size1", "size2", "start"}

StartSession(S) ==
    UNION { IF s.crashed THEN {s}
            ELSE resetGame([s EXCEPT !.gridSize = GridSizeFor(s.selectedGridSize)])
            : s \in S }

updateMenu(s, button, space) ==
    LET sel == CASE button = "size0" -> [s EXCEPT !.selectedGridSize = 0]
                 [] button = "size1" -> [s EXCEPT !.selectedGridSize = 1]
                 [] button = "size2" -> [s EXCEPT !.selectedGridSize = 2]
                 [] OTHER -> s
        clicked == IF button = "start" THEN StartSession({sel}) ELSE {sel}
    IN  IF space THEN StartSession(clicked) ELSE clicked

-----------------------------------------------------------------------------
(* Player input *)

\* IsMouseButtonPressed(MOUSE_LEFT_BUTTON) is false
NoClick == <<>>

\* Side of a drawn cell, in the unit mouse positions are counted in (cellSize
\* is set once, in initializeGame).  Positions are relative to the grid offset.
CellSpan == 2

\* int gridX = (mousePos.x - gridOffsetX) / cellSize: the conversion to int
\* truncates toward zero, so a position less than one cell left of (or above)
\* the board lands on column (or row) 0.
toCell(p) == IF p >= 0 THEN p \div CellSpan ELSE -((-p) \div CellSpan)

gridOf(mouse) == <<toCell(mouse[1]), toCell(mouse[2])>>

startImpulseMode(s, mode) ==
    IF s.playerCharges >= IMPULSE_COST
    THEN [s EXCEPT !.impulseModeActive = TRUE, !.currentImpulseMode = mode,
                   !.selectedCells = <<>>]
    ELSE s

\* finishImpulseMode without its selectedCells.clear()
finishImpulseMode_KeepSelection(s) ==
    [s EXCEPT !.impulseModeActive = FALSE, !.currentImpulseMode = "NONE"]

finishImpulseMode(s) ==
    [s EXCEPT !.impulseModeActive = FALSE, !.currentImpulseMode = "NONE",
              !.selectedCells = <<>>]

Range(q) == { q[i] : i \in 1..Len(q) }

\* the push without the alreadySelected test
pushSelection_NoDedup(s, x, y, limit) ==
    IF Len(s.selectedCells) < limit
    THEN [s EXCEPT !.selectedCells = Append(@, <<x, y>>)]
    ELSE s

\* if (!alreadySelected && selectedCells.size() < limit) push_back({x, y})
pushSelection(s, x, y, limit) ==
    IF <<x, y>> \notin Range(s.selectedCells) /\ Len(s.selectedCells) < limit
    THEN [s EXCEPT !.selectedCells = Append(@, <<x, y>>)]
    ELSE s

\* the attack applied without the charge debit
resolveAttack_NoDebit(s) ==
    IF Len(s.selectedCells) >= 2
    THEN LET k == Len(s.selectedCells)
             g == SetCells(s, Range(s.selectedCells), "PLAYER")
             d == [g EXCEPT !.aiCells = @ - k, !.playerCells = @ + k]
         IN  [d EXCEPT !.impulseModeActive = FALSE, !.currentImpulseMode = "NONE",
                       !.selectedCells = <<>>, !.playerTurn = FALSE, !.aiTimer = 0]
    ELSE s

\* lines 689-699: the attack is applied once two cells are selected
resolveAttack(s) ==
    IF Len(s.selectedCells) >= 2
    THEN LET k == Len(s.selectedCells)
             g == SetCells(s, Range(s.selectedCells), "PLAYER")
             d == [g EXCEPT !.aiCells = @ - k, !.playerCells = @ + k,
                            !.playerCharges = @ - IMPULSE_COST]
         IN  [finishImpulseMode(d) EXCEPT !.playerTurn = FALSE, !.aiTimer = 0]
    ELSE s

\* lines 720-729: the speed capture is applied once three cells are selected
resolveSpeed(s) ==
    IF Len(s.selectedCells) >= 3
    THEN LET k == Len(s.selectedCells)
             g == SetCells(s, Range(s.selectedCells), "PLAYER")
             d == [g EXCEPT !.playerCells = @ + k,
                            !.playerCharges = @ - IMPULSE_COST]
         IN  [finishImpulseMode(d) EXCEPT !.playerTurn = FALSE, !.aiTimer = 0]
    ELSE s

handleImpulseCellSelection(s, x, y) ==
    CASE s.currentImpulseMode = "ATTACK" ->
           IF /\ CellAt(s, <<x, y>>) = "AI"
              /\ \E adj \in getAdjacentCells(s, x, y) : CellAt(s, adj) = "PLAYER"
           THEN resolveAttack(pushSelection(s, x, y, 2))
           ELSE s
      [] s.currentImpulseMode = "SPEED" ->
           IF CellAt(s, <<x, y>>) = "NEUTRAL" /\ isValidMove(s, x, y, "PLAYER")
           THEN resolveSpeed(pushSelection(s, x, y, 3))
           ELSE s
      [] OTHER -> s

\* lines 550-567: an ordinary capture click
clickCapture(s, mouse) ==
    IF mouse = NoClick THEN s
    ELSE LET click == gridOf(mouse)
         IN  IF /\ InBounds(s, click[1], click[2])
                /\ CellAt(s, click) = "NEUTRAL"
                /\ isValidMove(s, click[1], click[2], "PLAYER")
             THEN [SetCells(s, {click}, "PLAYER") EXCEPT
                     !.playerCells = @ + 1, !.playerCharges = @ + 1,
                     !.playerTurn = FALSE, !.aiTimer = 0]
             ELSE s

\* lines 569-577: the A and S keys
keyImpulse(s, ks) ==
    IF s.playerCharges >= IMPULSE_COST
    THEN IF "A" \in ks THEN startImpulseMode(s, "ATTACK")
         ELSE IF "S" \in ks THEN startImpulseMode(s, "SPEED")
         ELSE s
    ELSE s

\* lines 580-588: a click while an impulse mode is active
clickImpulse(s, mouse) ==
    IF s.impulseModeActive /\ mouse # NoClick
    THEN LET click == gridOf(mouse)
         IN  IF InBounds(s, click[1], click[2])
             THEN handleImpulseCellSelection(s, click[1], click[2])
             ELSE s
    ELSE s

\* handleInput with the PLAYING case taken on every screen
handleInput_AnyState(s, mouse, ks) ==
    LET ordinary == IF s.playerTurn /\ ~s.impulseModeActive
                    THEN keyImpulse(clickCapture(s, mouse), ks)
                    ELSE s
    IN  clickImpulse(ordinary, mouse)

handleInput(s, mouse, ks) ==
    IF s.currentState = "PLAYING"
    THEN LET ordinary == IF s.playerTurn /\ ~s.impulseModeActive
                         THEN keyImpulse(clickCapture(s, mouse), ks)
                         ELSE s
         IN  clickImpulse(ordinary, mouse)
    ELSE s

-----------------------------------------------------------------------------
(* AI turn *)

\* the win check with the draw test after the player's
checkWinCondition_PlayerFirst(s) ==
    LET target == targetCells(s.gridSize)
        playerWin == s.playerCells >= target
        aiWin == s.aiCells >= target
    IN  IF playerWin THEN [s EXCEPT !.gameResult = "PLAYER_WIN"]
        ELSE IF aiWin THEN [s EXCEPT !.gameResult = "AI_WIN"]
        ELSE s

checkWinCondition(s) ==
    LET target == targetCells(s.gridSize)
        playerWin == s.playerCells >= target
        aiWin == s.aiCells >= target
    IN  IF playerWin /\ aiWin THEN [s EXCEPT !.gameResult = "DRAW"]
        ELSE IF playerWin THEN [s EXCEPT !.gameResult = "PLAYER_WIN"]
        ELSE IF aiWin THEN [s EXCEPT !.gameResult = "AI_WIN"]
        ELSE s

\* The subsets of S a shuffle followed by "take the first k, or all" can give.
FirstOfShuffle(S, k) ==
    { T \in SUBSET S : Cardinality(T) = IF Cardinality(S) >= k THEN k
                                        ELSE Cardinality(S) }

attackableCells(s) ==
    { c \in Square(s.gridSize) :
        /\ CellAt(s, c) = "PLAYER"
        /\ \E adj \in getAdjacentCells(s, c[1], c[2]) : CellAt(s, adj) = "AI" }

getAIAttackMove(s) == FirstOfShuffle(attackableCells(s), 2)

\* getAISpeedMove returning two cells at most
getAISpeedMove_FirstTwo(s) == FirstOfShuffle(getAvailableMoves(s, "AI"), 2)

getAISpeedMove(s) == FirstOfShuffle(getAvailableMoves(s, "AI"), 3)

\* the cell drawn, as a set: empty for the {-1, -1} of "no move"
getAIMove(s) == { {c} : c \in getAvailableMoves(s, "AI") }
                \cup (IF getAvailableMoves(s, "AI") = {} THEN {{}} ELSE {})

\* the attack loop without its playerCells--
aiAttack_KeepPlayerCount(s, cells) ==
    LET k == Cardinality(cells)
        g == SetCells(s, cells, "AI")
    IN  [g EXCEPT !.aiCells = @ + k,
                  !.aiCharges = IF cells # {} THEN @ - IMPULSE_COST ELSE @]

aiAttack(s, cells) ==
    LET k == Cardinality(cells)
        g == SetCells(s, cells, "AI")
    IN  [g EXCEPT !.playerCells = @ - k, !.aiCells = @ + k,
                  !.aiCharges = IF cells # {} THEN @ - IMPULSE_COST ELSE @]

aiSpeed(s, cells) ==
    LET k == Cardinality(cells)
        g == SetCells(s, cells, "AI")
    IN  [g EXCEPT !.aiCells = @ + k,
                  !.aiCharges = IF cells # {} THEN @ - IMPULSE_COST ELSE @]

\* the ordinary capture without its aiCharges++
aiCapture_NoCharge(s, cells) ==
    IF cells # {}
    THEN [SetCells(s, cells, "AI") EXCEPT !.aiCells = @ + 1]
    ELSE s

aiCapture(s, cells) ==
    IF cells # {}
    THEN [SetCells(s, cells, "AI") EXCEPT !.aiCells = @ + 1, !.aiCharges = @ + 1]
    ELSE s

ImpulseCoin == {"ATTACK", "SPEED"}

\* the branch choice without the aiCharges >= impulseCost tests
aiBranch_NoChargeTest(s, coin1, coin2) ==
    IF coin1 = "ATTACK" THEN "ATTACK"
    ELSE IF coin2 = "SPEED" THEN "SPEED"
    ELSE "CAPTURE"

\* lines 607-640: decideAIImpulseMode() is called once per branch test
aiBranch(s, coin1, coin2) ==
    IF s.aiCharges >= IMPULSE_COST /\ coin1 = "ATTACK" THEN "ATTACK"
    ELSE IF s.aiCharges >= IMPULSE_COST /\ coin2 = "SPEED" THEN "SPEED"
    ELSE "CAPTURE"

aiAct(s, branch) ==
    CASE branch = "ATTACK" -> { aiAttack(s, cells) : cells \in getAIAttackMove(s) }
      [] branch = "SPEED" -> { aiSpeed(s, cells) : cells \in getAISpeedMove(s) }
      [] OTHER -> { aiCapture(s, cells) : cells \in getAIMove(s) }

\* processAITurn without the aiTimer >= AI_DELAY test
processAITurn_NoDelay(s, deltaTime) ==
    LET t == [s EXCEPT !.aiTimer = @ + deltaTime]
    IN  { checkWinCondition([r EXCEPT !.playerTurn = TRUE]) :
            r \in UNION { aiAct(t, aiBranch(t, c1, c2)) :
                            c1 \in ImpulseCoin, c2 \in ImpulseCoin } }

processAITurn(s, deltaTime) ==
    LET t == [s EXCEPT !.aiTimer = @ + deltaTime]
    IN  IF t.aiTimer >= AI_DELAY
        THEN { checkWinCondition([r EXCEPT !.playerTurn = TRUE]) :
                 r \in UNION { aiAct(t, aiBranch(t, c1, c2)) :
                                 c1 \in ImpulseCoin, c2 \in ImpulseCoin } }
        ELSE { t }

\* PLAYING without the test of gameResult that ends the session
updatePlaying_NoResultTest(s, deltaTime) ==
    IF s.playerTurn THEN { s } ELSE processAITurn(s, deltaTime)

\* lines 258-283
updatePlaying(s, deltaTime) ==
    IF s.gameResult # "NONE" THEN { [s EXCEPT !.currentState = "GAME_OVER"] }
    ELSE IF s.playerTurn THEN { s }
    ELSE processAITurn(s, deltaTime)

\* restart: IsKeyPressed(KEY_R) || IsKeyPressed(KEY_ESCAPE)
updateGameOver(s, restart) ==
    IF restart THEN [s EXCEPT !.currentState = "MENU"] ELSE s

updateGame(s, deltaTime, button, space, restart) ==
    CASE s.currentState = "MENU" -> updateMenu(s, button, space)
      [] s.currentState = "PLAYING" -> updatePlaying(s, deltaTime)
      [] s.currentState = "GAME_OVER" -> { updateGameOver(s, restart) }

-----------------------------------------------------------------------------
(* The main loop: handleInput, then updateGame, once per frame *)

KeySets == SUBSET {"A", "S"}

Init ==
    /\ currentState = "MENU"
    /\ gameResult = "NONE"
    /\ gridSize = DEFAULT_GRID_SIZE
    /\ selectedGridSize = 1
    /\ playerTurn = TRUE
    /\ impulseModeActive = FALSE
    /\ currentImpulseMode = "NONE"
    /\ grid = [c \in StorageCells |->
                 IF c = <<0, 0>> THEN "PLAYER"
                 ELSE IF c = <<DEFAULT_GRID_SIZE - 1, DEFAULT_GRID_SIZE - 1>>
                      THEN "AI" ELSE "NEUTRAL"]
    /\ wild = WildInit
    /\ playerCells = 1
    /\ aiCells = 1
    /\ playerCharges = 0
    /\ aiCharges = 0
    /\ aiTimer = 0
    /\ selectedCells = <<>>
    /\ crashed = FALSE
    /\ plies = 0
    /\ phase = "input"

\* Mouse coordinates a frame can report: the corner of every cell, a
\* position a whole cell or more before the board, one less than a cell
\* before it, and one past its far edge.
MouseAxis == {-(CellSpan + 1), -1} \cup { CellSpan * i : i \in 0..gridSize }

FrameClicks == {NoClick} \cup (MouseAxis \X MouseAxis)

\* A session that runs past the end of the grid storage is followed for
\* MaxWildPlies board changes only.
WithinPlies(r) ==
    \/ r.gridSize <= DEFAULT_GRID_SIZE
    \/ r.currentState # "PLAYING"
    \/ plies < MaxWildPlies
    \/ (r.grid = grid /\ r.wild = wild)

CountPly(r) ==
    plies' = IF r.currentState # "PLAYING" \/ r.gridSize <= DEFAULT_GRID_SIZE THEN 0
             ELSE IF currentState # "PLAYING" THEN 0
             ELSE IF r.grid = grid /\ r.wild = wild THEN plies
             ELSE plies + 1

Step(r) == WithinPlies(r) /\ Install(r) /\ CountPly(r)

HandleInput ==
    /\ ~crashed
    /\ phase = "input"
    /\ \E r \in { handleInput(St, mouse, ks) : mouse \in FrameClicks, ks \in KeySets } :
         Step(r)
    /\ phase' = "update"

\* What the frame supplies to updateGame; an input the current screen does
\* not read is left at its idle value.
UpdateInputs ==
    CASE currentState = "MENU" ->
           [deltaTime : {1}, button : MenuButtons, space : BOOLEAN, restart : {FALSE}]
      [] currentState = "PLAYING" ->
           [deltaTime : DeltaTimes, button : {"none"}, space : {FALSE}, restart : {FALSE}]
      [] currentState = "GAME_OVER" ->
           [deltaTime : {1}, button : {"none"}, space : {FALSE}, restart : BOOLEAN]

UpdateGame ==
    /\ ~crashed
    /\ phase = "update"
    /\ \E r \in UNION { updateGame(St, i.deltaTime, i.button, i.space, i.restart) :
                          i \in UpdateInputs } :
         Step(r)
    /\ phase' = "input"

Next == HandleInput \/ UpdateGame

Spec == Init /\ [][Next]_vars

-----------------------------------------------------------------------------
(* Claims *)

(* Vocabulary of the claims, written without the model's own helpers *)

Board == Square(gridSize)

Owner(c) == CellAt(St, c)

Abs(i) == IF i < 0 THEN -i ELSE i

\* the up/down/left/right cells of c that lie on the board
Nbrs(c) == { d \in Board : Abs(d[1] - c[1]) + Abs(d[2] - c[2]) = 1 }

HasNbr(c, v) == \E d \in Nbrs(c) : Owner(d) = v

\* a mouse position inside cell c
OnCell(c) == <<CellSpan * c[1], CellSpan * c[2]>>

\* r differs from the current board at most on the cells of C
BoardSameExcept(r, C) == \A c \in Board \ C : CellAt(r, c) = Owner(c)

\* the fields a rejected input must leave alone
Untouched(r) ==
    /\ r.grid = grid /\ r.wild = wild
    /\ r.playerCells = playerCells /\ r.aiCells = aiCells
    /\ r.playerCharges = playerCharges /\ r.aiCharges = aiCharges
    /\ r.impulseModeActive = impulseModeActive
    /\ r.currentImpulseMode = currentImpulseMode
    /\ r.selectedCells = selectedCells
    /\ r.playerTurn = playerTurn

Playing == ~crashed /\ currentState = "PLAYING" /\ phase = "input"

OrdinaryTurn == Playing /\ playerTurn /\ ~impulseModeActive

LegalCapture(c) == c \in Board /\ Owner(c) = "NEUTRAL" /\ HasNbr(c, "PLAYER")

CountCells(s, v) == Cardinality({ c \in Square(s.gridSize) : CellAt(s, c) = v })

InSession == ~crashed /\ currentState \in {"PLAYING", "GAME_OVER"}

\* C1: in every state of a session playerCells is the number of Player cells
\* of the board and aiCells the number of AI cells (so that, with the Neutral
\* cells, they add up to gridSize * gridSize).
C1_CountInvariant ==
    InSession =>
        /\ playerCells = CountCells(St, "PLAYER")
        /\ aiCells = CountCells(St, "AI")
        /\ playerCells + aiCells + CountCells(St, "NEUTRAL") = gridSize * gridSize

\* C2: in the player's turn with no impulse mode active, a click on a board
\* cell captures it iff it is Neutral with a Player cell up, down, left or
\* right of it; the capture turns exactly that cell to Player, adds one to
\* playerCells and to playerCharges and passes the turn, and leaves every
\* other cell, aiCells and aiCharges alone.
C2_OrdinaryCapture ==
    OrdinaryTurn =>
      \A c \in Board, ks \in KeySets :
        LET r == handleInput(St, OnCell(c), ks)
        IN  IF LegalCapture(c)
            THEN /\ CellAt(r, c) = "PLAYER"
                 /\ BoardSameExcept(r, {c})
                 /\ r.playerCells = playerCells + 1
                 /\ r.playerCharges = playerCharges + 1
                 /\ r.playerTurn = FALSE
                 /\ r.aiCells = aiCells /\ r.aiCharges = aiCharges
            ELSE /\ BoardSameExcept(r, {})
                 /\ r.playerCells = playerCells
                 /\ r.playerCharges = playerCharges
                 /\ r.playerTurn = TRUE
                 /\ r.aiCells = aiCells /\ r.aiCharges = aiCharges

\* the capture of (1,0) on a fresh default board has been made
C2_Witness ==
    /\ ~crashed /\ currentState = "PLAYING" /\ phase = "update"
    /\ gridSize = DEFAULT_GRID_SIZE
    /\ ~playerTurn /\ playerCells = 2 /\ playerCharges = 1
    /\ Owner(<<1, 0>>) = "PLAYER" /\ aiCells = 1 /\ aiCharges = 0

AttackTarget(c) == c \in Board /\ Owner(c) = "AI" /\ HasNbr(c, "PLAYER")

SpeedTarget(c) == c \in Board /\ Owner(c) = "NEUTRAL" /\ HasNbr(c, "PLAYER")

ImpulseTarget(c) ==
    \/ currentImpulseMode = "ATTACK" /\ AttackTarget(c)
    \/ currentImpulseMode = "SPEED" /\ SpeedTarget(c)

\* C3: a click on an illegal cell in an ordinary player turn, an A or S key
\* while playerCharges < impulseCost, a click on an invalid impulse target and
\* a click on an already selected impulse target change neither the grid, the
\* counts, the charges, the impulse mode, the selection nor playerTurn.
C3_RejectedInputs ==
    /\ OrdinaryTurn =>
         /\ \A c \in Board, ks \in KeySets :
              (~LegalCapture(c) /\ (ks = {} \/ playerCharges < IMPULSE_COST))
                 => Untouched(handleInput(St, OnCell(c), ks))
         /\ \A ks \in KeySets :
              playerCharges < IMPULSE_COST => Untouched(handleInput(St, NoClick, ks))
    /\ (Playing /\ impulseModeActive) =>
         \A c \in Board, ks \in KeySets :
           (~ImpulseTarget(c) \/ c \in Range(selectedCells))
              => Untouched(handleInput(St, OnCell(c), ks))

\* a selection is under way whose first target is open to a second click
C3_Witness ==
    /\ Playing /\ impulseModeActive /\ Len(selectedCells) = 1
    /\ ImpulseTarget(selectedCells[1])
    /\ playerTurn

\* the state a session starts in, on a board of side n
Fresh(r, n) ==
    /\ r.currentState = "PLAYING" /\ r.gridSize = n
    /\ \A c \in Square(n) :
         CellAt(r, c) = IF c = <<0, 0>> THEN "PLAYER"
                        ELSE IF c = <<n - 1, n - 1>> THEN "AI" ELSE "NEUTRAL"
    /\ r.playerCells = 1 /\ r.aiCells = 1
    /\ r.playerCharges = 0 /\ r.aiCharges = 0
    /\ r.playerTurn /\ ~r.impulseModeActive /\ r.currentImpulseMode = "NONE"
    /\ r.selectedCells = <<>> /\ r.gameResult = "NONE"

SizeAfter(button) ==
    CASE button = "size0" -> SMALL_GRID_SIZE
      [] button = "size1" -> DEFAULT_GRID_SIZE
      [] button = "size2" -> LARGE_GRID_SIZE
      [] OTHER -> GridSizeFor(selectedGridSize)

\* C4: whatever an earlier session left behind, a session started from the
\* menu with side n begins with grid[0][0] Player, grid[n-1][n-1] AI, every
\* other cell of the n x n board Neutral, one cell and no charge per side,
\* the player to move, no impulse mode, no selection and no result; and the
\* start button or the space key starts one unless the process faults.
C4_FreshSession ==
    (~crashed /\ currentState = "MENU" /\ phase = "update") =>
      \A button \in MenuButtons, space \in BOOLEAN :
        \A r \in updateMenu(St, button, space) :
          /\ r.currentState = "PLAYING" => Fresh(r, SizeAfter(button))
          /\ (button = "start" \/ space) => (r.crashed \/ r.currentState = "PLAYING")
          /\ ~(button = "start" \/ space) => r.currentState = "MENU"

\* a small session has just started on storage an earlier, larger session
\* left cells in
C4_Witness ==
    /\ ~crashed /\ Fresh(St, SMALL_GRID_SIZE) /\ phase = "input"
    /\ \E c \in StorageCells \ Board : grid[c] # "NEUTRAL"
    /\ \E c \in StorageCells \ Board : grid[c] = "PLAYER"

\* C5: in a session started from the menu the grid storage holds gridSize
\* rows of gridSize cells, so that every grid[x][y] with x and y in
\* 0..gridSize-1 is a cell of the storage and the start never faults.
C5_GridMatchesSession ==
    /\ ~crashed
    /\ InSession => Square(gridSize) \subseteq StorageCells

\* the least t with t >= 45% of n*n
CeilTarget(n) ==
    CHOOSE t \in 0..(n * n) : 100 * t >= 45 * n * n /\ 100 * (t - 1) < 45 * n * n

ExpectedResult(p, a, t) ==
    IF p >= t /\ a >= t THEN "DRAW"
    ELSE IF p >= t THEN "PLAYER_WIN"
    ELSE IF a >= t THEN "AI_WIN"
    ELSE "NONE"

\* the step is an AI turn that fired (a capture, an impulse or a pass)
AIResolves ==
    /\ ~crashed /\ currentState = "PLAYING" /\ phase = "update"
    /\ gameResult = "NONE" /\ ~playerTurn /\ playerTurn'

\* C6: every AI turn that fires leaves gameResult as the counts at that
\* moment decide (DRAW, PLAYER_WIN, AI_WIN, or NONE when neither side holds
\* the target), and no other step sets a result.
C6_WinCheck ==
    [][ /\ AIResolves =>
             gameResult' = ExpectedResult(playerCells', aiCells', CeilTarget(gridSize))
        /\ (gameResult' # gameResult /\ gameResult' # "NONE") => AIResolves ]_vars

\* both sides hold the target when the AI turn ends
C6_Witness ==
    /\ ~crashed /\ currentState = "PLAYING" /\ gameResult = "DRAW"
    /\ playerCells >= CeilTarget(gridSize) /\ aiCells >= CeilTarget(gridSize)

\* C7: a player whose cell count has reached the target is, after the AI
\* turn that follows, the winner or in a draw.
C7_TargetEndsGame ==
    [][ (AIResolves /\ playerCells >= CeilTarget(gridSize))
           => gameResult' \in {"PLAYER_WIN", "DRAW"} ]_vars

\* C8: a result other than NONE keeps its value in every step except the
\* start of a new session from the menu.
C8_TerminalResult ==
    [][ gameResult # "NONE" =>
          \/ gameResult' = gameResult
          \/ currentState = "MENU" /\ currentState' = "PLAYING" ]_vars

\* a result has been carried from the board to the game-over screen
C8_Witness ==
    ~crashed /\ currentState = "GAME_OVER" /\ gameResult = "PLAYER_WIN"

\* C9: in Attack mode a click completes the impulse iff it is the second
\* distinct valid target (an AI cell with a Player cell beside it); the two
\* cells were AI cells and become Player cells, aiCells loses 2, playerCells
\* gains 2, playerCharges loses impulseCost, the selection is emptied, the
\* mode is NONE and the turn is the AI's.  Any other click completes nothing.
C9_PlayerAttack ==
    (Playing /\ currentImpulseMode = "ATTACK") =>
      /\ impulseModeActive /\ Len(selectedCells) <= 1
      /\ \A ks \in KeySets : Untouched(handleInput(St, NoClick, ks))
      /\ \A c \in Board, ks \in KeySets :
           LET r == handleInput(St, OnCell(c), ks)
               second == /\ AttackTarget(c) /\ Len(selectedCells) = 1
                         /\ c # selectedCells[1]
           IN  IF second
               THEN /\ Owner(selectedCells[1]) = "AI" /\ Owner(c) = "AI"
                    /\ CellAt(r, selectedCells[1]) = "PLAYER"
                    /\ CellAt(r, c) = "PLAYER"
                    /\ BoardSameExcept(r, {c, selectedCells[1]})
                    /\ r.aiCells = aiCells - 2
                    /\ r.playerCells = playerCells + 2
                    /\ r.playerCharges = playerCharges - IMPULSE_COST
                    /\ r.aiCharges = aiCharges
                    /\ r.selectedCells = <<>>
                    /\ r.currentImpulseMode = "NONE" /\ ~r.impulseModeActive
                    /\ r.playerTurn = FALSE
               ELSE /\ r.currentImpulseMode = "ATTACK"
                    /\ BoardSameExcept(r, {})
                    /\ r.playerCells = playerCells /\ r.aiCells = aiCells
                    /\ r.playerCharges = playerCharges
                    /\ r.playerTurn = playerTurn
                    /\ r.selectedCells =
                         IF AttackTarget(c) /\ selectedCells = <<>>
                         THEN <<c>> ELSE selectedCells

\* one target is selected and a second one is open
C9_Witness ==
    /\ Playing /\ currentImpulseMode = "ATTACK" /\ Len(selectedCells) = 1
    /\ playerTurn
    /\ \E c \in Board : AttackTarget(c) /\ c # selectedCells[1]

\* C10: in Speed mode a click completes the impulse iff it is the third
\* distinct valid target (a Neutral cell that is a legal capture for the
\* player); the three cells were Neutral and become Player cells,
\* playerCells gains 3, aiCells is unchanged, playerCharges loses
\* impulseCost, the selection is emptied and the turn is the AI's.
C10_PlayerSpeed ==
    (Playing /\ currentImpulseMode = "SPEED") =>
      /\ impulseModeActive /\ Len(selectedCells) <= 2
      /\ \A ks \in KeySets : Untouched(handleInput(St, NoClick, ks))
      /\ \A c \in Board, ks \in KeySets :
           LET r == handleInput(St, OnCell(c), ks)
               sel == Range(selectedCells)
               third == /\ SpeedTarget(c) /\ Len(selectedCells) = 2
                        /\ c \notin sel
           IN  IF third
               THEN /\ \A d \in sel \cup {c} : Owner(d) = "NEUTRAL"
                    /\ \A d \in sel \cup {c} : CellAt(r, d) = "PLAYER"
                    /\ BoardSameExcept(r, sel \cup {c})
                    /\ r.playerCells = playerCells + 3
                    /\ r.aiCells = aiCells
                    /\ r.playerCharges = playerCharges - IMPULSE_COST
                    /\ r.aiCharges = aiCharges
                    /\ r.selectedCells = <<>>
                    /\ r.currentImpulseMode = "NONE" /\ ~r.impulseModeActive
                    /\ r.playerTurn = FALSE
               ELSE /\ r.currentImpulseMode = "SPEED"
                    /\ BoardSameExcept(r, {})
                    /\ r.playerCells = playerCells /\ r.aiCells = aiCells
                    /\ r.playerCharges = playerCharges
                    /\ r.playerTurn = playerTurn

\* the cells of the board that the step turns from one owner to another
Turned(from, to) == { c \in Board : Owner(c) = from /\ CellAt(St', c) = to }

\* the cells of the board whose owner the step changes
Changed == { c \in Board : CellAt(St', c) # Owner(c) }

\* the step changes exactly the n cells of Turned(from, to)
TurnsExactly(from, to, n) ==
    Cardinality(Turned(from, to)) = n /\ Changed = Turned(from, to)

\* the step stays inside one session
InOneSession == ~crashed /\ currentState = "PLAYING" /\ currentState' = "PLAYING"

\* C11: for either side, a step of a session that debits the side's charges
\* turns exactly 2 cells of the other side into the side's own (Attack) or
\* exactly 3 Neutral cells into the side's own (Speed), and changes no other
\* cell; charges are never debited for fewer cells.
C11_ImpulseFullSize ==
    [][ InOneSession =>
          /\ aiCharges' < aiCharges =>
               \/ TurnsExactly("PLAYER", "AI", 2)
               \/ TurnsExactly("NEUTRAL", "AI", 3)
          /\ playerCharges' < playerCharges =>
               \/ TurnsExactly("AI", "PLAYER", 2)
               \/ TurnsExactly("NEUTRAL", "PLAYER", 3) ]_vars

\* C12: no side's charges are ever negative; inside a session a side's
\* charges change only by +1 in a step that is that side's ordinary capture
\* (one Neutral cell taken) or by -impulseCost in a step that resolves that
\* side's impulse, and the side held at least impulseCost charges before
\* the debit.
C12_ChargeAccounting ==
    /\ [](playerCharges >= 0 /\ aiCharges >= 0)
    /\ [][ InOneSession =>
             /\ \/ playerCharges' = playerCharges
                \/ /\ playerCharges' = playerCharges + 1
                   /\ phase = "input" /\ TurnsExactly("NEUTRAL", "PLAYER", 1)
                \/ /\ playerCharges' = playerCharges - IMPULSE_COST
                   /\ playerCharges >= IMPULSE_COST
                   /\ phase = "input" /\ impulseModeActive /\ ~impulseModeActive'
                   /\ Changed # {} /\ \A c \in Changed : CellAt(St', c) = "PLAYER"
             /\ \/ aiCharges' = aiCharges
                \/ /\ aiCharges' = aiCharges + 1
                   /\ phase = "update" /\ TurnsExactly("NEUTRAL", "AI", 1)
                \/ /\ aiCharges' = aiCharges - IMPULSE_COST
                   /\ aiCharges >= IMPULSE_COST
                   /\ phase = "update"
                   /\ Changed # {} /\ \A c \in Changed : CellAt(St', c) = "AI" ]_vars

\* the player has paid its last charge for an attack that took the AI's
\* first cell
C12_Witness ==
    /\ ~crashed /\ currentState = "PLAYING" /\ phase = "update" /\ ~playerTurn
    /\ gridSize = DEFAULT_GRID_SIZE
    /\ Owner(<<gridSize - 1, gridSize - 1>>) = "PLAYER"
    /\ playerCharges = 0 /\ ~impulseModeActive

\* the step leaves the grid, the counts and the charges as they are
BoardAndBooksKept ==
    UNCHANGED <<grid, wild, playerCells, aiCells, playerCharges, aiCharges>>

\* C13: the two sides act in turn: while playerTurn is false (the player has
\* resolved an action and the AI turn has not fired) no input frame changes
\* the grid, the counts or the charges, and while playerTurn is true no
\* update changes them, whatever clicks and keys the frames deliver.
C13_TurnAlternation ==
    [][ InOneSession =>
          /\ (phase = "input" /\ ~playerTurn) => BoardAndBooksKept
          /\ (phase = "update" /\ playerTurn) => BoardAndBooksKept ]_vars

\* C14: the screen changes only from the menu to a freshly reset session
\* (in an update), from play to the game-over screen (in an update that
\* finds a result), and from the game-over screen to the menu (in an
\* update); play with a result is left in the next update and play without
\* one is not left; and on the menu and the game-over screen no step that
\* stays outside play changes the board, the counts, the charges, the turn,
\* the impulse mode or the selection.
C14_SessionMachine ==
    [][ ~crashed =>
          /\ currentState' # currentState =>
               /\ phase = "update"
               /\ \/ /\ currentState = "MENU" /\ currentState' = "PLAYING"
                     /\ Fresh(St', gridSize')
                  \/ /\ currentState = "PLAYING" /\ currentState' = "GAME_OVER"
                     /\ gameResult # "NONE"
                  \/ currentState = "GAME_OVER" /\ currentState' = "MENU"
          /\ (currentState = "PLAYING" /\ phase = "update" /\ gameResult # "NONE")
                => currentState' = "GAME_OVER"
          /\ (currentState # "PLAYING" /\ currentState' # "PLAYING")
                => /\ BoardAndBooksKept
                   /\ UNCHANGED <<playerTurn, impulseModeActive,
                                  currentImpulseMode, selectedCells, gameResult>> ]_vars

\* a session has been played to its result and left for the menu
C14_Witness ==
    ~crashed /\ currentState = "MENU" /\ gameResult # "NONE" /\ phase = "input"

\* the state the clicks on c1, c2, c3 in three successive frames lead to;
\* while it is the player's turn and no result is set the updates between
\* them change nothing
AfterClicks(c1, c2, c3) ==
    handleInput(handleInput(handleInput(St, OnCell(c1), {}), OnCell(c2), {}),
                OnCell(c3), {})

\* C15: from every state of the player's turn in which an impulse mode is
\* active some clicks (three at most are ever needed, a selection holding at
\* most three cells) lead out of it: the mode is NONE, nothing is selected
\* and the turn is the AI's.
C15_ImpulseCanBeLeft ==
    (Playing /\ impulseModeActive /\ playerTurn /\ gameResult = "NONE") =>
      \E c1 \in Board, c2 \in Board, c3 \in Board :
        LET r == AfterClicks(c1, c2, c3)
        IN  ~r.impulseModeActive /\ r.currentImpulseMode = "NONE" /\ ~r.playerTurn

\* C16: an AI turn that fires debits aiCharges only when the AI held at
\* least impulseCost charges, and makes an ordinary capture (aiCharges + 1)
\* only when it held fewer: with impulseCost charges or more the AI turn is
\* always one of the two impulses.
C16_AIImpulseGating ==
    [][ AIResolves =>
          /\ aiCharges' < aiCharges => aiCharges >= IMPULSE_COST
          /\ aiCharges' > aiCharges => aiCharges < IMPULSE_COST ]_vars

\* the AI's delay is running, or over, in a session without a result
AITurn ==
    /\ ~crashed /\ currentState = "PLAYING" /\ phase = "update"
    /\ gameResult = "NONE" /\ ~playerTurn

Min(a, b) == IF a <= b THEN a ELSE b

\* the cells of the board on which r differs from the current board
DiffCells(r) == { c \in Board : CellAt(r, c) # Owner(c) }

\* Player cells with an AI cell up, down, left or right of them
Attackable == { c \in Board : Owner(c) = "PLAYER" /\ HasNbr(c, "AI") }

\* C17: when the AI turn takes the Attack branch (open to it with
\* impulseCost charges) and k Player cells have an AI cell beside them, it
\* turns exactly min(2, k) of those cells to AI and no other cell,
\* playerCells loses and aiCells gains that number, aiCharges loses
\* impulseCost iff a cell was taken, playerCharges is unchanged, and the
\* turn is the player's again.
C17_AIAttack ==
    (AITurn /\ aiCharges >= IMPULSE_COST) =>
      LET n == Min(2, Cardinality(Attackable))
      IN  /\ \E c1 \in ImpulseCoin, c2 \in ImpulseCoin : aiBranch(St, c1, c2) = "ATTACK"
          /\ aiAct(St, "ATTACK") # {}
          /\ \A r \in aiAct(St, "ATTACK") :
               /\ DiffCells(r) \subseteq Attackable
               /\ Cardinality(DiffCells(r)) = n
               /\ \A c \in DiffCells(r) : CellAt(r, c) = "AI"
               /\ r.playerCells = playerCells - n
               /\ r.aiCells = aiCells + n
               /\ r.aiCharges = IF n > 0 THEN aiCharges - IMPULSE_COST ELSE aiCharges
               /\ r.playerCharges = playerCharges
          /\ \A r \in processAITurn(St, AI_DELAY) : r.playerTurn

\* an AI attack has just taken the player's first cell
C17_Witness ==
    /\ ~crashed /\ currentState = "PLAYING" /\ phase = "input"
    /\ gridSize = DEFAULT_GRID_SIZE
    /\ playerTurn /\ aiTimer >= AI_DELAY
    /\ Owner(<<0, 0>>) = "AI"

\* Neutral cells with an AI cell up, down, left or right of them
AITargets == { c \in Board : Owner(c) = "NEUTRAL" /\ HasNbr(c, "AI") }

C19_AICapture ==
    AITurn =>
      /\ \E c1 \in ImpulseCoin, c2 \in ImpulseCoin : aiBranch(St, c1, c2) = "CAPTURE"
      /\ \A c \in Board : isValidMove(St, c[1], c[2], "AI") <=> c \in AITargets
      /\ { DiffCells(r) : r \in aiAct(St, "CAPTURE") } =
            IF AITargets = {} THEN {{}} ELSE { {c} : c \in AITargets }
      /\ \A r \in aiAct(St, "CAPTURE") :
           /\ \A c \in DiffCells(r) : CellAt(r, c) = "AI"
           /\ r.aiCells = aiCells + Cardinality(DiffCells(r))
           /\ r.aiCharges = aiCharges + Cardinality(DiffCells(r))
           /\ r.playerCells = playerCells /\ r.playerCharges = playerCharges
      /\ \A r \in processAITurn(St, AI_DELAY) : r.playerTurn

\* the AI's first turn of a session, an ordinary capture, has been made
C19_Witness ==
    /\ ~crashed /\ currentState = "PLAYING" /\ phase = "input"
    /\ gridSize = DEFAULT_GRID_SIZE
    /\ playerTurn /\ aiTimer >= AI_DELAY
    /\ aiCells = 2 /\ CountCells(St, "AI") = 2 /\ aiCharges = 1
    /\ playerCells = 2 /\ playerCharges = 1

\* The main loop going on to its next handler.
Frame == ~crashed /\ phase' \in {"input", "update"} /\ phase' # phase

\* Frames keep coming for as long as the process runs: the loop of main()
\* calls handleInput and updateGame in turn and neither of them blocks.
LiveSpec == Spec /\ WF_phase(Frame)

\* the input frame resolves a player action
PlayerResolves ==
    /\ ~crashed /\ currentState = "PLAYING" /\ phase = "input"
    /\ ~playerTurn' /\ (playerTurn \/ ~BoardAndBooksKept)

\* C20: aiTimer is the time ticked in the AI's turn since the player's last
\* resolved action (that action sets it to 0, nothing else in play touches
\* it but the ticks of the AI's turn, each of them positive); an update of
\* the AI's turn that leaves it below AI_DELAY changes nothing else, and the
\* one that brings it to AI_DELAY resolves the AI's action and returns the
\* turn; so every AI turn of a session on the allocated grid ends.
C20_AIDelay ==
    /\ [][ InOneSession =>
             /\ phase = "input" =>
                  IF PlayerResolves THEN aiTimer' = 0 ELSE aiTimer' = aiTimer
             /\ (phase = "update" /\ (playerTurn \/ gameResult # "NONE"))
                  => aiTimer' = aiTimer
             /\ AITurn =>
                  /\ aiTimer' > aiTimer
                  /\ aiTimer' < AI_DELAY =>
                       /\ ~playerTurn' /\ BoardAndBooksKept
                       /\ gameResult' = gameResult
                  /\ aiTimer' >= AI_DELAY => playerTurn' ]_vars
    /\ (AITurn /\ gridSize <= DEFAULT_GRID_SIZE) ~> playerTurn

\* the AI's delay is half over and the AI has not moved
C20_Witness ==
    /\ AITurn /\ gridSize = DEFAULT_GRID_SIZE
    /\ aiTimer > 0 /\ aiTimer < AI_DELAY
    /\ aiCells = 1 /\ playerCells = 2

\* C21: in every reachable state the selected cells are pairwise distinct
\* cells of the board, at most 2 of them in Attack mode and at most 3 in
\* Speed mode and none when the mode is NONE, and impulseModeActive is true
\* exactly when the mode is Attack or Speed.
C21_SelectionInvariant ==
    /\ \A i \in 1..Len(selectedCells), j \in 1..Len(selectedCells) :
         i # j => selectedCells[i] # selectedCells[j]
    /\ \A i \in 1..Len(selectedCells) : selectedCells[i] \in Board
    /\ currentImpulseMode \in {"NONE", "ATTACK", "SPEED"}
    /\ currentImpulseMode = "ATTACK" => Len(selectedCells) <= 2
    /\ currentImpulseMode = "SPEED" => Len(selectedCells) <= 3
    /\ currentImpulseMode = "NONE" => selectedCells = <<>>
    /\ impulseModeActive <=> currentImpulseMode \in {"ATTACK", "SPEED"}

\* two targets of a Speed impulse are selected and a third is open
C21_Witness ==
    /\ Playing /\ playerTurn /\ currentImpulseMode = "SPEED"
    /\ Len(selectedCells) = 2
    /\ \E c \in Board : SpeedTarget(c) /\ c \notin Range(selectedCells)

-----------------------------------------------------------------------------
(* The win check at the source's own board sides *)

\* gridSize as the start button sets it (lines 338-340), unscaled
SourceSides == {7, 10, 12}

\* A session of one of the source's sides at the end of an AI turn, with any
\* counts the board has room for; checkWinCondition reads nothing else.
TargetInit ==
    /\ currentState = "PLAYING"
    /\ gameResult = "NONE"
    /\ gridSize \in SourceSides
    /\ selectedGridSize = 1
    /\ playerTurn = TRUE
    /\ impulseModeActive = FALSE
    /\ currentImpulseMode = "NONE"
    /\ grid = [c \in StorageCells |-> "NEUTRAL"]
    /\ wild = WildInit
    /\ playerCells \in 0..(gridSize * gridSize)
    /\ aiCells \in 0..(gridSize * gridSize - playerCells)
    /\ playerCharges = 0
    /\ aiCharges = 0
    /\ aiTimer = AI_DELAY
    /\ selectedCells = <<>>
    /\ crashed = FALSE
    /\ plies = 0
    /\ phase = "update"

\* line 643: the call of checkWinCondition that ends the AI turn
CheckWin ==
    /\ phase = "update"
    /\ Install(checkWinCondition(St))
    /\ phase' = "input"
    /\ plies' = plies

TargetSpec == TargetInit /\ [][CheckWin]_vars

\* C22: for each of the sides 7, 10 and 12 the target the win check uses,
\* (gridSize*gridSize*45 + 99) / 100, is the least integer not below 45% of
\* the board, that is 23, 45 and 65 cells, and the result the check sets is
\* the one that target decides.
C22_TargetArithmetic ==
    /\ targetCells(gridSize) = CeilTarget(gridSize)
    /\ targetCells(gridSize) = CASE gridSize = 7 -> 23
                                 [] gridSize = 10 -> 45
                                 [] gridSize = 12 -> 65
    /\ phase = "input" =>
         gameResult = ExpectedResult(playerCells, aiCells, CeilTarget(gridSize))

\* on the 12 x 12 board the player wins with 65 cells, the AI one short
C22_Witness ==
    /\ phase = "input" /\ gridSize = 12
    /\ playerCells = 65 /\ aiCells = 64
    /\ gameResult = "PLAYER_WIN"

\* C23: in every state of play in which an impulse mode is active it is the
\* player's turn.
C23_ImpulseInPlayerTurn ==
    (~crashed /\ currentState = "PLAYING" /\ impulseModeActive) => playerTurn

\* C24: from the step that sets a result to the start of the next session
\* no step changes the grid, the counts or the charges.
C24_FrozenAfterResult ==
    [][ (~crashed /\ gameResult # "NONE"
           /\ ~(currentState = "MENU" /\ currentState' = "PLAYING"))
          => BoardAndBooksKept ]_vars

\* the state clicks on c1, c2, c3 in three successive frames lead to from s
ClicksFrom(s, c1, c2, c3) ==
    handleInput(handleInput(handleInput(s, OnCell(c1), {}), OnCell(c2), {}),
                OnCell(c3), {})

\* C25: in every state of the player's turn in a session without a result
\* some inputs resolve the turn: a click that captures, or clicks (after an
\* A or S key if no mode is active yet) that complete an impulse; the
\* updates between these frames change nothing while the turn is the
\* player's.
C25_PlayerCanMove ==
    (Playing /\ playerTurn /\ gameResult = "NONE") =>
      \/ \E c \in Board : ~handleInput(St, OnCell(c), {}).playerTurn
      \/ \E ks \in KeySets, c1 \in Board, c2 \in Board, c3 \in Board :
           ~ClicksFrom(handleInput(St, NoClick, ks), c1, c2, c3).playerTurn

\* C26: inside a session every cell of the board holds Neutral, Player or
\* AI, no step turns a cell back to Neutral (so the Neutral cells never
\* grow in number), an AI cell becomes a Player cell only by the player's
\* Attack and a Player cell an AI cell only by the AI's Attack.
C26_OwnershipForward ==
    [][ InOneSession =>
          /\ \A c \in Board : CellAt(St', c) \in {"NEUTRAL", "PLAYER", "AI"}
          /\ \A c \in Changed : CellAt(St', c) # "NEUTRAL"
          /\ CountCells(St', "NEUTRAL") <= CountCells(St, "NEUTRAL")
          /\ Turned("AI", "PLAYER") # {} =>
               phase = "input" /\ currentImpulseMode = "ATTACK"
          /\ Turned("PLAYER", "AI") # {} =>
               phase = "update" /\ aiCharges' = aiCharges - IMPULSE_COST ]_vars

=============================================================================
